---- MODULE Spec2Model ----
(***************************************************************************)
(* Model of the credit-decisioning engine of esubu_credit_scoring_v3.     *)
(*                                                                         *)
(* The engine (app_simple.py) turns the positive-class probability of a   *)
(* classifier into a credit score, applies an ordered rule table, and,    *)
(* when the decision is Approved, estimates a loan amount.  app.py and    *)
(* test_code_quality.py hold two further probability-to-score mappings.   *)
(*                                                                         *)
(* Numbers.  A probability is the rational pn / PDen and is carried as    *)
(* its numerator pn.  Python floats are modelled by exact rationals: on   *)
(* this grid every product prob * 500 is computed without a rounding      *)
(* error that crosses an integer, so int() and round() act as on the      *)
(* exact value.  A float score is carried scaled by PDen.                  *)
(***************************************************************************)
EXTENDS Integers, Sequences, FiniteSets, TLC

VARIABLES
    phase,                  \* position of the current run_decision_engine call
    input_df,               \* the one-row frame handed to run_decision_engine
    prob,                   \* numerator of model.predict_proba(...)[0][1]
    credit_score,           \* local of run_decision_engine
    decision,               \* local of run_decision_engine
    approved_loan_amount,   \* local of run_decision_engine
    message,                \* local of run_decision_engine
    result,                 \* value returned by run_decision_engine
    calls,                  \* functions invoked by the current engine call, in order
    call,                   \* the last direct call of a score-mapping function
    failure,                \* what failed in the current engine call, "" if nothing
    st_errors,              \* st.error messages run_decision_engine has displayed
    outcome,                \* how the engine call ended: "returned" or "raised"
    trace,                  \* phases the current engine call has passed, in order
    submission,             \* the last form submission of loan_application
    threads,                \* the locals of each concurrent call of the engine
    table_created,          \* whether users.db holds the users table
    users,                  \* the users table: rows [username, password, role]
    auth,                   \* the last call of a function on the users table
    login_attempts,         \* app.py: st.session_state.login_attempts, times in minutes
    now,                    \* app.py: time.time(), in minutes
    admin_password_hash,    \* app.py: the hash the environment holds, once read
    sidebar,                \* app.py: what the last run of the script put in the sidebar
    session,                \* app_simple.py: st.session_state (logged_in, username, role)
    page,                   \* app_simple.py: what the last run of main rendered
    oracle                  \* the answers the deterministic oracle has given: frame -> probability or failure

\* what run_decision_engine adds to the page and how it ends
exit_vars == <<failure, st_errors, outcome, trace>>

vars == <<phase, input_df, prob, credit_score, decision, approved_loan_amount,
          message, result, calls, call, exit_vars, submission, threads, oracle,
          table_created, users, auth, login_attempts, now, admin_password_hash,
          sidebar, session, page>>

\* the session of app_simple.py and its page
session_vars == <<session, page>>

\* the admin panel of app.py
admin_vars == <<login_attempts, now, admin_password_hash, sidebar>>

\* the users database and the last call on it
auth_vars == <<table_created, users, auth>>

\* the variables of the concurrent callers
conc_vars == <<threads, oracle>>

\* the variables outside the engine, the direct calls and the form
rest_vars == <<conc_vars, auth_vars, admin_vars, session_vars>>

engine_vars == <<phase, input_df, prob, credit_score, decision,
                 approved_loan_amount, message, result, calls, exit_vars>>

(***************************************************************************)
(* Bounds of the model                                                     *)
(***************************************************************************)
\* probabilities are the multiples of 1 / PDen
PDen == 2000
\* the oracle returns every OracleStep-th of them (the multiples of 0.001,
\* which reach every integer score of 300..800 and the halves between)
OracleStep == 2
\* direct calls also try numerators this far below 0 and above PDen
OutOfRange == 200
\* calls of run_decision_engine in flight at once
NCallers == 2
\* distinct salts of bcrypt.gensalt
NSalts == 2
\* the clock of app.py advances in steps of TickMinutes up to MaxTime minutes
TickMinutes == 5
MaxTime == 30

(***************************************************************************)
(* Program constants                                                       *)
(***************************************************************************)
DEFAULT_MIN_SCORE == 300
DEFAULT_MAX_SCORE == 800
FORM_MIN_INCOME == 1000
DEFAULT_ADMIN_USERNAME == "admin"
DEFAULT_ADMIN_PASSWORD == "admin123"
\* app.py, check_rate_limit(max_attempts=3, window_minutes=15)
MAX_ATTEMPTS == 3
WINDOW_MINUTES == 15

\* a value that may be None is the empty set (None) or the set of its one value
None == {}
Some(x) == {x}
Val(s) == CHOOSE x \in s : TRUE

\* the local `decision` before line 208 assigns it
Unset == "unset"

\* monthly incomes tried: below the form's minimum, the form's minimum
\* (whose products are ties between two thousands), and the form's default
Incomes == {300, 1000, 50000}

RepaymentHistories == {"good", "average", "poor"}

\* histories a caller of decision_logic can pass: the function takes any string
RawHistories == RepaymentHistories \cup {"excellent"}

\* the choices of the Region selectbox; the other eight selectboxes of the
\* form are encoded by the same loop and behave as this one
Regions == {"Urban", "Suburban", "Rural"}

\* incomes the form accepts: number_input(min_value=1000)
FormIncomes == {i \in Incomes : i >= FORM_MIN_INCOME}

\* <<min_score, max_score>> passed by a caller: the defaults, another proper
\* range, an empty range and an inverted one
\* (on each of them the float product is exact enough for int() to agree
\* with the exact value on every probability tried)
ScoreRanges == {<<DEFAULT_MIN_SCORE, DEFAULT_MAX_SCORE>>, <<300, 850>>,
                <<500, 500>>, <<DEFAULT_MAX_SCORE, DEFAULT_MIN_SCORE>>}

\* usernames, passwords and roles passed to the functions on the users table
Usernames == {"", DEFAULT_ADMIN_USERNAME, "alice"}
Passwords == {"", DEFAULT_ADMIN_PASSWORD, "secret"}
Roles == {"", "admin", "officer", "guest"}

\* salts bcrypt.gensalt can draw
Salts == 1..NSalts

\* app.py: what is typed into the Admin Password field (nothing, the
\* password the default comment names, another one)
AdminPasswords == {"", "esubu_admin_2025", "guess"}

\* app.py: SHA-256 as an injective digest, and the default of line 33, a
\* literal of 66 hex digits that is the digest of no password
sha256(password) == <<"sha256", password>>
default_hash == <<"literal", "8b5f48702995c9c6f5c92e9c3e5d8f4b5e7c3a2f9b1d6e8c4a7b3c5d9e2f8a6b1c">>

\* app.py: values of ESUBU_ADMIN_PASSWORD_HASH (unset: the default)
AdminHashes == {default_hash, sha256("esubu_admin_2025")}

\* concurrent callers of run_decision_engine
Callers == 1..NCallers

\* the frames concurrent callers pass
ConcFrames ==
    [monthly_income : {50000},
     repayment_history : {"good", "poor"},
     has_collateral : {FALSE},
     missing_documents : BOOLEAN]

\* what the oracle answers for a frame: the pipeline or predict_proba raises
\* (None), or a probability (0 and 1, the scores 300 and 800)
ConcOutcomes == {None, Some(0), Some(PDen)}

\* credit scores handed to estimate_loan_amount called directly
Scores == DEFAULT_MIN_SCORE..DEFAULT_MAX_SCORE

\* numerators of the probabilities an oracle can return: [0, 1]
UnitProbs == 0..PDen

\* numerators of the probabilities the oracle of the model returns
OracleProbs == {k * OracleStep : k \in 0..(PDen \div OracleStep)}

\* numerators handed to a score-mapping function called directly
ProbInputs == (0 - OutOfRange)..(PDen + OutOfRange)

(***************************************************************************)
(* Arithmetic of the Python built-ins                                      *)
(***************************************************************************)
\* int(n / d) for d > 0: truncation toward zero
IntTrunc(n, d) == IF n >= 0 THEN n \div d ELSE 0 - ((0 - n) \div d)

\* round(n / d) for d > 0: nearest integer, a tie goes to the even neighbour
RoundHalfEven(n, d) ==
    LET q == n \div d
        r == n % d
    IN  IF 2 * r < d THEN q
        ELSE IF 2 * r > d THEN q + 1
        ELSE IF q % 2 = 0 THEN q ELSE q + 1

(***************************************************************************)
(* Decision engine, app_simple.py                                          *)
(***************************************************************************)
\* mutant: round() in place of int()
map_probability_to_score_rounded(pn, min_score, max_score) ==
    RoundHalfEven(min_score * PDen + pn * (max_score - min_score), PDen)

\* mutant: the width of the range replaced by max_score
map_probability_to_score_unscaled(pn, min_score, max_score) ==
    IntTrunc(min_score * PDen + pn * max_score, PDen)

\* mutant: the sign convention of app.py, (1 - prob)
map_probability_to_score_inverse(pn, min_score, max_score) ==
    IntTrunc(min_score * PDen + (PDen - pn) * (max_score - min_score), PDen)

\* int(min_score + prob * (max_score - min_score))
map_probability_to_score(pn, min_score, max_score) ==
    IntTrunc(min_score * PDen + pn * (max_score - min_score), PDen)

\* mutant: the Review rule tested before the collateral rule
rule_table_reordered(score, repayment_history, has_collateral, missing_docs) ==
    LET first ==
            IF score >= 700 /\ repayment_history = "good" THEN "Approved"
            ELSE IF (500 <= score /\ score < 600) \/ repayment_history = "average"
                 THEN "Review"
            ELSE IF score >= 600 /\ repayment_history \in {"good", "average"}
                    /\ has_collateral THEN "Approved"
            ELSE "Rejected"
    IN  IF missing_docs THEN "Review" ELSE first

\* mutant: the missing_docs test as one more elif at the end of the chain
rule_table_override_elif(score, repayment_history, has_collateral, missing_docs) ==
    IF score >= 700 /\ repayment_history = "good" THEN "Approved"
    ELSE IF score >= 600 /\ repayment_history \in {"good", "average"}
            /\ has_collateral THEN "Approved"
    ELSE IF (500 <= score /\ score < 600) \/ repayment_history = "average"
         THEN "Review"
    ELSE IF missing_docs THEN "Review"
    ELSE "Rejected"

\* the if/elif chain of decision_logic followed by the missing_docs override
rule_table(score, repayment_history, has_collateral, missing_docs) ==
    LET first ==
            IF score >= 700 /\ repayment_history = "good" THEN "Approved"
            ELSE IF score >= 600 /\ repayment_history \in {"good", "average"}
                    /\ has_collateral THEN "Approved"
            ELSE IF (500 <= score /\ score < 600) \/ repayment_history = "average"
                 THEN "Review"
            ELSE "Rejected"
    IN  IF missing_docs THEN "Review" ELSE first

\* decision_logic returns the pair (credit_score, decision); income is unused
decision_logic(pn, income, repayment_history, has_collateral, missing_docs) ==
    LET score == map_probability_to_score(pn, DEFAULT_MIN_SCORE, DEFAULT_MAX_SCORE)
    IN  [credit_score |-> score,
         decision |-> rule_table(score, repayment_history, has_collateral, missing_docs)]

\* mutant: strict comparisons, so a score on a threshold takes the lower tier
multiplier2_strict(score) ==
    IF score > 750 THEN 6
    ELSE IF score > 700 THEN 5
    ELSE IF score > 650 THEN 4
    ELSE IF score > 600 THEN 3
    ELSE 2

\* twice the multiplier of estimate_loan_amount (3.0, 2.5, 2.0, 1.5, 1.0)
multiplier2(score) ==
    IF score >= 750 THEN 6
    ELSE IF score >= 700 THEN 5
    ELSE IF score >= 650 THEN 4
    ELSE IF score >= 600 THEN 3
    ELSE 2

\* round(income * multiplier, -3)
estimate_loan_amount(income, score) ==
    1000 * RoundHalfEven(income * multiplier2(score), 2000)

\* the three templates; formatting None with {amount:,.0f} raises TypeError
generate_message(dec, score, amount) ==
    IF dec = "Approved"
    THEN IF amount = None THEN [template |-> "TypeError"]
         ELSE [template |-> "approved", credit_score |-> score, amount |-> Val(amount)]
    ELSE IF dec = "Review"
    THEN [template |-> "review", credit_score |-> score]
    ELSE [template |-> "rejected", credit_score |-> score]

\* round(prob, 4), carried in ten-thousandths
round4(pn) == RoundHalfEven(pn * 10000, PDen)

(***************************************************************************)
(* The other probability-to-score mappings of the repository               *)
(***************************************************************************)
\* app.py: (1 - prob) * (max_score - min_score) + min_score, a float
probability_to_score(pn, min_score, max_score) ==
    [raised |-> FALSE,
     scaled |-> (PDen - pn) * (max_score - min_score) + min_score * PDen]

\* test_code_quality.py: the same mapping behind two ValueError checks
calculate_probability_score(pn, min_score, max_score) ==
    IF ~(0 <= pn /\ pn <= PDen) THEN [raised |-> TRUE, scaled |-> 0]
    ELSE IF min_score >= max_score THEN [raised |-> TRUE, scaled |-> 0]
    ELSE [raised |-> FALSE,
          scaled |-> (PDen - pn) * (max_score - min_score) + min_score * PDen]

\* app_simple.py: map_probability_to_score as a call that returns or raises
map_probability_to_score_call(pn, min_score, max_score) ==
    [raised |-> FALSE,
     scaled |-> PDen * map_probability_to_score(pn, min_score, max_score)]

(***************************************************************************)
(* State                                                                   *)
(***************************************************************************)
\* a direct call: the function, its arguments (pn the probability, args the
\* others), whether it raised, and what it returned: a score scaled by PDen
\* (with the decision, for decision_logic) or a loan amount
NoArgs == [repayment_history |-> "", has_collateral |-> FALSE, missing_docs |-> FALSE,
           income |-> 0, credit_score |-> 0,
           min_score |-> DEFAULT_MIN_SCORE, max_score |-> DEFAULT_MAX_SCORE]
NoCall == [fn |-> "", pn |-> 0, args |-> NoArgs, raised |-> FALSE, scaled |-> 0,
           decision |-> "", amount |-> 0]

\* the record of a call on the users table: the function, its arguments,
\* what it returned (login_user: a role or None; add_user and delete_user:
\* ok and msg) and the st.error it displayed
NoAuth == [fn |-> "", username |-> "", password |-> "", role |-> "",
           returned |-> None, ok |-> FALSE, msg |-> "", st_error |-> ""]

\* lines 378-382: the session state main sets up on the first run
NoSession == [logged_in |-> FALSE, username |-> "", role |-> ""]

\* the sidebar before the script has run: whether a password was entered
\* and verified, the st.error and st.success shown, the number of attempts
\* said to remain, and whether the admin features are shown
NoSidebar == [submitted |-> FALSE, verified |-> FALSE, error |-> "", granted |-> FALSE,
              remaining_attempts |-> MAX_ATTEMPTS, features |-> FALSE]

\* the locals of one call of run_decision_engine before the call
IdleThread == [phase |-> "Idle", input_df |-> None, prob |-> None,
               credit_score |-> None, decision |-> Unset,
               approved_loan_amount |-> None, result |-> None]

Init ==
    /\ phase = "Idle"
    /\ input_df = None
    /\ prob = None
    /\ credit_score = None
    /\ decision = Unset
    /\ approved_loan_amount = None
    /\ message = None
    /\ result = None
    /\ calls = <<>>
    /\ call = NoCall
    /\ failure = ""
    /\ st_errors = <<>>
    /\ outcome = ""
    /\ trace = <<>>
    /\ submission = None
    /\ threads = [c \in Callers |-> IdleThread]
    /\ oracle = [df \in {} |-> None]
    /\ table_created = FALSE
    /\ users = {}
    /\ auth = NoAuth
    /\ login_attempts = <<>>
    /\ now = 0
    /\ admin_password_hash = None
    /\ sidebar = NoSidebar
    /\ session = NoSession
    /\ page = {}

Frames ==
    [monthly_income : Incomes,
     repayment_history : RepaymentHistories,
     has_collateral : BOOLEAN,
     missing_documents : BOOLEAN]

(***************************************************************************)
(* run_decision_engine, one action per phase                               *)
(***************************************************************************)
\* lines 182-184: the call, and the test of the model handle
Enter ==
    /\ phase = "Idle"
    /\ \E df \in Frames, model_loaded \in BOOLEAN :
          /\ input_df' = Some(df)
          /\ phase' = IF model_loaded THEN "Preprocessing" ELSE "Returned"
          /\ failure' = IF model_loaded THEN "" ELSE "model_unavailable"
          /\ outcome' = IF model_loaded THEN "" ELSE "returned"
    /\ calls' = <<>>
    /\ result' = None
    /\ st_errors' = <<>>
    /\ trace' = <<>>
    /\ UNCHANGED <<prob, credit_score, decision, approved_loan_amount, message, call>>
    /\ UNCHANGED <<submission, rest_vars>>

\* mutant: a failed pipeline answered with a default probability of 0.5
Preprocessing_default_probability ==
    /\ phase = "Preprocessing"
    /\ result' = None
    /\ \E ok \in BOOLEAN :
          /\ phase' = IF ok THEN "Predicting" ELSE "Scoring"
          /\ failure' = IF ok THEN "" ELSE "pipeline_error"
          /\ st_errors' = IF ok THEN st_errors
                          ELSE Append(st_errors, "Error loading or applying preprocessing pipeline")
          /\ prob' = IF ok THEN prob ELSE Some(PDen \div 2)
    /\ trace' = Append(trace, "Preprocessing")
    /\ UNCHANGED <<input_df, credit_score, decision, approved_loan_amount,
                   message, calls, call, outcome>>
    /\ UNCHANGED <<submission, rest_vars>>

\* lines 186-192: joblib.load and pipeline.transform succeed or raise
Preprocessing ==
    /\ phase = "Preprocessing"
    /\ result' = None
    /\ \E ok \in BOOLEAN :
          /\ phase' = IF ok THEN "Predicting" ELSE "Returned"
          /\ failure' = IF ok THEN "" ELSE "pipeline_error"
          /\ st_errors' = IF ok THEN st_errors
                          ELSE Append(st_errors, "Error loading or applying preprocessing pipeline")
          /\ outcome' = IF ok THEN "" ELSE "returned"
    /\ trace' = Append(trace, "Preprocessing")
    /\ UNCHANGED <<input_df, prob, credit_score, decision, approved_loan_amount,
                   message, calls, call>>
    /\ UNCHANGED <<submission, rest_vars>>

\* mutant: no except clause, the exception of predict_proba leaves the function
PredictFails_reraises ==
    /\ phase = "Predicting"
    /\ result' = None
    /\ phase' = "Returned"
    /\ failure' = "prediction_error"
    /\ outcome' = "raised"
    /\ trace' = Append(trace, "Predicting")
    /\ UNCHANGED <<input_df, prob, credit_score, decision, approved_loan_amount,
                   message, calls, call, st_errors>>
    /\ UNCHANGED <<submission, rest_vars>>

\* lines 194-199: predict_proba raises, the except clause displays and returns None
PredictFails ==
    /\ phase = "Predicting"
    /\ result' = None
    /\ phase' = "Returned"
    /\ failure' = "prediction_error"
    /\ st_errors' = Append(st_errors, "Prediction error")
    /\ outcome' = "returned"
    /\ trace' = Append(trace, "Predicting")
    /\ UNCHANGED <<input_df, prob, credit_score, decision, approved_loan_amount,
                   message, calls, call>>
    /\ UNCHANGED <<submission, rest_vars>>

\* lines 194-205: predict_proba returns the probability pn / PDen
Predicting ==
    /\ phase = "Predicting"
    /\ \E pn \in OracleProbs : prob' = Some(pn)
    /\ phase' = "Scoring"
    /\ trace' = Append(trace, "Predicting")
    /\ UNCHANGED <<input_df, credit_score, decision, approved_loan_amount,
                   message, result, calls, call, failure, st_errors, outcome>>
    /\ UNCHANGED <<submission, rest_vars>>

\* line 144, inside decision_logic
Scoring ==
    /\ phase = "Scoring"
    /\ credit_score' = Some(map_probability_to_score(Val(prob), DEFAULT_MIN_SCORE,
                                                    DEFAULT_MAX_SCORE))
    /\ calls' = Append(Append(calls, "decision_logic"), "map_probability_to_score")
    /\ phase' = "Deciding"
    /\ trace' = Append(trace, "Scoring")
    /\ UNCHANGED <<input_df, prob, decision, approved_loan_amount, message, result, call,
                   failure, st_errors, outcome>>
    /\ UNCHANGED <<submission, rest_vars>>

\* mutant: the test of line 211 dropped, every decision goes on to the estimate
Deciding_always_estimates ==
    /\ phase = "Deciding"
    /\ decision' = rule_table(Val(credit_score), Val(input_df).repayment_history,
                              Val(input_df).has_collateral,
                              Val(input_df).missing_documents)
    /\ phase' = "Estimating"
    /\ trace' = Append(trace, "Deciding")
    /\ UNCHANGED <<input_df, prob, credit_score, approved_loan_amount, message,
                   result, calls, call, failure, st_errors, outcome>>
    /\ UNCHANGED <<submission, rest_vars>>

\* lines 146-158 and the test of line 211
Deciding ==
    /\ phase = "Deciding"
    /\ decision' = rule_table(Val(credit_score), Val(input_df).repayment_history,
                              Val(input_df).has_collateral, Val(input_df).missing_documents)
    /\ phase' = IF decision' = "Approved" THEN "Estimating" ELSE "Messaging"
    /\ trace' = Append(trace, "Deciding")
    /\ UNCHANGED <<input_df, prob, credit_score, approved_loan_amount, message,
                   result, calls, call, failure, st_errors, outcome>>
    /\ UNCHANGED <<submission, rest_vars>>

\* line 212
Estimating ==
    /\ phase = "Estimating"
    /\ approved_loan_amount' = Some(estimate_loan_amount(Val(input_df).monthly_income,
                                                         Val(credit_score)))
    /\ calls' = Append(calls, "estimate_loan_amount")
    /\ phase' = "Messaging"
    /\ trace' = Append(trace, "Estimating")
    /\ UNCHANGED <<input_df, prob, credit_score, decision, message, result, call,
                   failure, st_errors, outcome>>
    /\ UNCHANGED <<submission, rest_vars>>

\* mutant: an approved amount of 0 turned into a Review while the message is made
Messaging_redecides ==
    /\ phase = "Messaging"
    /\ decision' = IF approved_loan_amount = Some(0) THEN "Review" ELSE decision
    /\ message' = Some(generate_message(decision', Val(credit_score),
                                        approved_loan_amount))
    /\ calls' = Append(calls, "generate_message")
    /\ result' = Some([credit_score |-> Val(credit_score),
                       decision |-> decision',
                       loan_amount |-> approved_loan_amount,
                       probability |-> round4(Val(prob)),
                       message |-> Val(message')])
    /\ phase' = "Returned"
    /\ outcome' = "returned"
    /\ trace' = Append(trace, "Messaging")
    /\ UNCHANGED <<input_df, prob, credit_score, approved_loan_amount, call,
                   failure, st_errors>>
    /\ UNCHANGED <<submission, rest_vars>>

\* lines 214-222
Messaging ==
    /\ phase = "Messaging"
    /\ message' = Some(generate_message(decision, Val(credit_score),
                                        approved_loan_amount))
    /\ calls' = Append(calls, "generate_message")
    /\ result' = Some([credit_score |-> Val(credit_score),
                       decision |-> decision,
                       loan_amount |-> approved_loan_amount,
                       probability |-> round4(Val(prob)),
                       message |-> Val(message')])
    /\ phase' = "Returned"
    /\ outcome' = "returned"
    /\ trace' = Append(trace, "Messaging")
    /\ UNCHANGED <<input_df, prob, credit_score, decision, approved_loan_amount, call,
                   failure, st_errors>>
    /\ UNCHANGED <<submission, rest_vars>>

\* the caller has the result; the locals of the call are gone
Leave ==
    /\ phase = "Returned"
    /\ phase' = "Idle"
    /\ input_df' = None
    /\ prob' = None
    /\ credit_score' = None
    /\ decision' = Unset
    /\ approved_loan_amount' = None
    /\ message' = None
    /\ result' = None
    /\ calls' = <<>>
    /\ failure' = ""
    /\ st_errors' = <<>>
    /\ outcome' = ""
    /\ trace' = <<>>
    /\ UNCHANGED call
    /\ UNCHANGED <<submission, rest_vars>>

(***************************************************************************)
(* Direct calls of the score-mapping functions, default bounds             *)
(***************************************************************************)
\* the record a direct call leaves: r is what the function returned or raised
Called(fn, pn, args, r, dec) ==
    [fn |-> fn, pn |-> pn, args |-> args, raised |-> r.raised, scaled |-> r.scaled,
     decision |-> dec, amount |-> 0]

CallMapProbabilityToScore ==
    /\ call.fn = ""
    /\ \E pn \in ProbInputs :
          call' = Called("map_probability_to_score", pn, NoArgs,
                         map_probability_to_score_call(pn, DEFAULT_MIN_SCORE,
                                                       DEFAULT_MAX_SCORE), "")
    /\ UNCHANGED engine_vars
    /\ UNCHANGED <<submission, rest_vars>>

CallProbabilityToScore ==
    /\ call.fn = ""
    /\ \E pn \in ProbInputs :
          call' = Called("probability_to_score", pn, NoArgs,
                         probability_to_score(pn, DEFAULT_MIN_SCORE, DEFAULT_MAX_SCORE),
                         "")
    /\ UNCHANGED engine_vars
    /\ UNCHANGED <<submission, rest_vars>>

CallCalculateProbabilityScore ==
    /\ call.fn = ""
    /\ \E pn \in ProbInputs :
          call' = Called("calculate_probability_score", pn, NoArgs,
                         calculate_probability_score(pn, DEFAULT_MIN_SCORE,
                                                     DEFAULT_MAX_SCORE), "")
    /\ UNCHANGED engine_vars
    /\ UNCHANGED <<submission, rest_vars>>

\* the three mappings called with a score range of the caller's
CallMapProbabilityToScoreRange ==
    /\ call.fn = ""
    /\ \E pn \in UnitProbs, range \in ScoreRanges :
          call' = Called("map_probability_to_score", pn,
                         [NoArgs EXCEPT !.min_score = range[1], !.max_score = range[2]],
                         map_probability_to_score_call(pn, range[1], range[2]), "")
    /\ UNCHANGED engine_vars
    /\ UNCHANGED <<submission, rest_vars>>

CallProbabilityToScoreRange ==
    /\ call.fn = ""
    /\ \E pn \in UnitProbs, range \in ScoreRanges :
          call' = Called("probability_to_score", pn,
                         [NoArgs EXCEPT !.min_score = range[1], !.max_score = range[2]],
                         probability_to_score(pn, range[1], range[2]), "")
    /\ UNCHANGED engine_vars
    /\ UNCHANGED <<submission, rest_vars>>

CallCalculateProbabilityScoreRange ==
    /\ call.fn = ""
    /\ \E pn \in UnitProbs, range \in ScoreRanges :
          call' = Called("calculate_probability_score", pn,
                         [NoArgs EXCEPT !.min_score = range[1], !.max_score = range[2]],
                         calculate_probability_score(pn, range[1], range[2]), "")
    /\ UNCHANGED engine_vars
    /\ UNCHANGED <<submission, rest_vars>>

\* decision_logic never reads its income argument and never raises
CallDecisionLogic ==
    /\ call.fn = ""
    /\ \E pn \in ProbInputs, income \in Incomes, rh \in RawHistories,
          hc \in BOOLEAN, md \in BOOLEAN :
          LET r == decision_logic(pn, income, rh, hc, md)
          IN  call' = Called("decision_logic", pn,
                             [NoArgs EXCEPT !.repayment_history = rh,
                                            !.has_collateral = hc,
                                            !.missing_docs = md,
                                            !.income = income],
                             [raised |-> FALSE, scaled |-> PDen * r.credit_score],
                             r.decision)
    /\ UNCHANGED engine_vars
    /\ UNCHANGED <<submission, rest_vars>>

CallEstimateLoanAmount ==
    /\ call.fn = ""
    /\ \E income \in Incomes, score \in Scores :
          call' = [NoCall EXCEPT !.fn = "estimate_loan_amount",
                                 !.args = [NoArgs EXCEPT !.income = income,
                                                         !.credit_score = score],
                                 !.amount = estimate_loan_amount(income, score)]
    /\ UNCHANGED engine_vars
    /\ UNCHANGED <<submission, rest_vars>>

\* the caller has the value; the next direct call starts afresh
CallReturns ==
    /\ call.fn # ""
    /\ call' = NoCall
    /\ UNCHANGED engine_vars
    /\ UNCHANGED <<submission, rest_vars>>

(***************************************************************************)
(* run_decision_engine called by several callers at once.  Each call has   *)
(* its own locals; the steps of the calls interleave.  The model handle    *)
(* and the pipeline file are only read.  The oracle is deterministic: its   *)
(* first answer for a frame is any outcome, and it repeats that answer     *)
(* whenever it is asked about the frame again.                             *)
(***************************************************************************)
\* lines 182-222 run by one caller alone: what the call returns for frame df
\* when the oracle answers p (None: the pipeline or predict_proba raised)
run_decision_engine(df, p) ==
    IF p = None THEN None
    ELSE LET r == decision_logic(Val(p), df.monthly_income, df.repayment_history,
                                 df.has_collateral, df.missing_documents)
             amount == IF r.decision = "Approved"
                       THEN Some(estimate_loan_amount(df.monthly_income, r.credit_score))
                       ELSE None
         IN  Some([credit_score |-> r.credit_score,
                   decision |-> r.decision,
                   loan_amount |-> amount,
                   probability |-> round4(Val(p)),
                   message |-> generate_message(r.decision, r.credit_score, amount)])

\* lines 182-184: caller c enters with a frame and a loaded model
ThreadEnter(c) ==
    /\ threads[c].phase = "Idle"
    /\ \E df \in ConcFrames :
          threads' = [threads EXCEPT ![c] = [IdleThread EXCEPT !.phase = "Predicting",
                                                               !.input_df = Some(df)]]
    /\ UNCHANGED <<engine_vars, call, submission, oracle, auth_vars, admin_vars, session_vars>>

\* the answers the oracle may give for frame df, and the oracle after answer p
Answers(df) == IF df \in DOMAIN oracle THEN {oracle[df]} ELSE ConcOutcomes
Answered(df, p) ==
    [f \in DOMAIN oracle \cup {df} |-> IF f = df THEN p ELSE oracle[f]]

\* mutant: prob is a module-level global, written for every call in flight
ThreadPredicting_global(c) ==
    /\ threads[c].phase = "Predicting"
    /\ \E p \in Answers(Val(threads[c].input_df)) :
          /\ oracle' = Answered(Val(threads[c].input_df), p)
          /\ threads' = [d \in Callers |->
                           IF d = c
                           THEN IF p = None
                                THEN [threads[c] EXCEPT !.phase = "Returned"]
                                ELSE [threads[c] EXCEPT !.phase = "Deciding", !.prob = p]
                           ELSE IF p = None THEN threads[d]
                                ELSE [threads[d] EXCEPT !.prob = p]]
    /\ UNCHANGED <<engine_vars, call, submission, auth_vars, admin_vars, session_vars>>

\* lines 186-199: the pipeline and predict_proba; a failure returns None
ThreadPredicting(c) ==
    /\ threads[c].phase = "Predicting"
    /\ \E p \in Answers(Val(threads[c].input_df)) :
          /\ oracle' = Answered(Val(threads[c].input_df), p)
          /\ threads' = [threads EXCEPT ![c] =
                           IF p = None
                           THEN [threads[c] EXCEPT !.phase = "Returned"]
                           ELSE [threads[c] EXCEPT !.phase = "Deciding", !.prob = p]]
    /\ UNCHANGED <<engine_vars, call, submission, auth_vars, admin_vars, session_vars>>

\* lines 201-208: decision_logic on the locals of caller c
ThreadDeciding(c) ==
    /\ threads[c].phase = "Deciding"
    /\ LET df == Val(threads[c].input_df)
           r == decision_logic(Val(threads[c].prob), df.monthly_income,
                               df.repayment_history, df.has_collateral,
                               df.missing_documents)
       IN  threads' = [threads EXCEPT ![c] =
                         [threads[c] EXCEPT
                            !.credit_score = Some(r.credit_score),
                            !.decision = r.decision,
                            !.phase = IF r.decision = "Approved" THEN "Estimating"
                                      ELSE "Messaging"]]
    /\ UNCHANGED <<engine_vars, call, submission, oracle, auth_vars, admin_vars, session_vars>>

\* lines 210-212
ThreadEstimating(c) ==
    /\ threads[c].phase = "Estimating"
    /\ threads' = [threads EXCEPT ![c] =
                     [threads[c] EXCEPT
                        !.approved_loan_amount =
                            Some(estimate_loan_amount(Val(threads[c].input_df).monthly_income,
                                                      Val(threads[c].credit_score))),
                        !.phase = "Messaging"]]
    /\ UNCHANGED <<engine_vars, call, submission, oracle, auth_vars, admin_vars, session_vars>>

\* lines 214-222
ThreadMessaging(c) ==
    /\ threads[c].phase = "Messaging"
    /\ LET t == threads[c]
       IN  threads' = [threads EXCEPT ![c] =
                         [t EXCEPT
                            !.result = Some([credit_score |-> Val(t.credit_score),
                                             decision |-> t.decision,
                                             loan_amount |-> t.approved_loan_amount,
                                             probability |-> round4(Val(t.prob)),
                                             message |-> generate_message(t.decision,
                                                             Val(t.credit_score),
                                                             t.approved_loan_amount)]),
                            !.phase = "Returned"]]
    /\ UNCHANGED <<engine_vars, call, submission, oracle, auth_vars, admin_vars, session_vars>>

\* caller c has the result; the locals of the call are gone
ThreadLeave(c) ==
    /\ threads[c].phase = "Returned"
    /\ threads' = [threads EXCEPT ![c] = IdleThread]
    /\ UNCHANGED <<engine_vars, call, submission, oracle, auth_vars, admin_vars, session_vars>>

ConcurrentNext ==
    \E c \in Callers :
        \/ ThreadEnter(c)
        \/ ThreadPredicting(c)
        \/ ThreadDeciding(c)
        \/ ThreadEstimating(c)
        \/ ThreadMessaging(c)
        \/ ThreadLeave(c)

(***************************************************************************)
(* The users table of app_simple.py.  A bcrypt hash carries its salt and   *)
(* the digest of the salt and the password; the digest is modelled as the *)
(* pair itself, so two hashes agree only on the same salt and password.   *)
(* Every function opens its own connection; sqlite3 may raise in any call *)
(* (db_ok), and raises when the table does not exist.                      *)
(***************************************************************************)
\* SELECT ... WHERE username = ?: whether a row matches, and the row fetchone returns
HasUser(table, username) == \E row \in table : row.username = username
Row(table, username) == CHOOSE row \in table : row.username = username

bcrypt_hashpw(password, salt) == [salt |-> salt, digest |-> <<salt, password>>]

\* lines 16-20, with the salt gensalt drew
hash_password(password, salt) == bcrypt_hashpw(password, salt)

\* lines 22-27: checkpw hashes the password with the salt of the stored hash
verify_password(password, hashed) == bcrypt_hashpw(password, hashed.salt) = hashed

\* lines 29-54 on a table: what the database and st.error hold afterwards.
\* The CREATE TABLE is committed (line 40) before the default admin is looked
\* up and inserted (lines 43-51): sqlite3 may raise before the first commit
\* (db = "raises"), or after it and before the second ("raises_after_create")
DbOutcomes == {"ok", "raises", "raises_after_create"}
table_after_create(created, table, db, salt) ==
    [table_created |-> IF db = "raises" THEN created ELSE TRUE,
     users |-> IF db # "ok" \/ HasUser(table, DEFAULT_ADMIN_USERNAME) THEN table
               ELSE table \cup {[username |-> DEFAULT_ADMIN_USERNAME,
                                  password |-> hash_password(DEFAULT_ADMIN_PASSWORD, salt),
                                  role |-> "admin"]},
     st_error |-> IF db = "ok" THEN "" ELSE "Database initialization failed"]

\* the salts hash_password can draw in a run of create_user_table: it is
\* called only when the default admin is inserted (line 45)
SaltsDrawn(table, db) ==
    IF db = "ok" /\ ~HasUser(table, DEFAULT_ADMIN_USERNAME) THEN Salts
    ELSE {CHOOSE salt \in Salts : TRUE}

\* a call of create_user_table
create_user_table ==
    /\ \E db \in DbOutcomes, salt \in Salts :
          LET after == table_after_create(table_created, users, db, salt)
          IN  /\ table_created' = after.table_created
              /\ users' = after.users
              /\ auth' = [NoAuth EXCEPT !.fn = "create_user_table",
                                        !.st_error = after.st_error]
    /\ UNCHANGED <<engine_vars, call, submission, conc_vars, admin_vars, session_vars>>

\* lines 59-67: add_user opens the database and hashes the password only
\* for arguments that pass its two tests
Accepted(username, password, role) ==
    username # "" /\ password # "" /\ role \in {"admin", "officer"}
DbReached(username, password, role) ==
    IF Accepted(username, password, role) THEN BOOLEAN ELSE {TRUE}
SaltsHashed(username, password, role) ==
    IF Accepted(username, password, role) THEN Salts
    ELSE {CHOOSE salt \in Salts : TRUE}

\* mutant: the table has no PRIMARY KEY, the INSERT never raises IntegrityError
add_user_without_primary_key ==
    /\ \E username \in Usernames, password \in Passwords, role \in Roles :
        \E db_ok \in DbReached(username, password, role),
           salt \in SaltsHashed(username, password, role) :
          LET called == [NoAuth EXCEPT !.fn = "add_user", !.username = username,
                                       !.password = password, !.role = role]
          IN  IF username = "" \/ password = "" \/ role = ""
              THEN /\ auth' = [called EXCEPT !.msg = "All fields are required"]
                   /\ UNCHANGED <<table_created, users>>
              ELSE IF role \notin {"admin", "officer"}
              THEN /\ auth' = [called EXCEPT !.msg = "Invalid role"]
                   /\ UNCHANGED <<table_created, users>>
              ELSE IF ~db_ok \/ ~table_created
              THEN /\ auth' = [called EXCEPT !.msg = "Database error"]
                   /\ UNCHANGED <<table_created, users>>
              ELSE /\ auth' = [called EXCEPT !.ok = TRUE,
                                             !.msg = "User created successfully"]
                   /\ users' = users \cup {[username |-> username,
                                               password |-> hash_password(password, salt),
                                               role |-> role]}
                   /\ UNCHANGED table_created
    /\ UNCHANGED <<engine_vars, call, submission, conc_vars, admin_vars, session_vars>>

\* lines 56-76
add_user ==
    /\ \E username \in Usernames, password \in Passwords, role \in Roles :
        \E db_ok \in DbReached(username, password, role),
           salt \in SaltsHashed(username, password, role) :
          LET called == [NoAuth EXCEPT !.fn = "add_user", !.username = username,
                                       !.password = password, !.role = role]
          IN  IF username = "" \/ password = "" \/ role = ""
              THEN /\ auth' = [called EXCEPT !.msg = "All fields are required"]
                   /\ UNCHANGED <<table_created, users>>
              ELSE IF role \notin {"admin", "officer"}
              THEN /\ auth' = [called EXCEPT !.msg = "Invalid role"]
                   /\ UNCHANGED <<table_created, users>>
              ELSE IF ~db_ok \/ ~table_created
              THEN /\ auth' = [called EXCEPT !.msg = "Database error"]
                   /\ UNCHANGED <<table_created, users>>
              ELSE IF HasUser(users, username)
              THEN /\ auth' = [called EXCEPT !.msg = "Username already exists"]
                   /\ UNCHANGED <<table_created, users>>
              ELSE /\ auth' = [called EXCEPT !.ok = TRUE,
                                             !.msg = "User created successfully"]
                   /\ users' = users \cup {[username |-> username,
                                               password |-> hash_password(password, salt),
                                               role |-> role]}
                   /\ UNCHANGED table_created
    /\ UNCHANGED <<engine_vars, call, submission, conc_vars, admin_vars, session_vars>>

\* lines 107-125
delete_user ==
    /\ \E username \in Usernames, db_ok \in BOOLEAN :
          LET called == [NoAuth EXCEPT !.fn = "delete_user", !.username = username]
          IN  IF username = DEFAULT_ADMIN_USERNAME
              THEN /\ auth' = [called EXCEPT !.msg = "Cannot delete default admin user"]
                   /\ UNCHANGED <<table_created, users>>
              ELSE IF ~db_ok \/ ~table_created
              THEN /\ auth' = [called EXCEPT !.msg = "Database error"]
                   /\ UNCHANGED <<table_created, users>>
              ELSE IF HasUser(users, username)
              THEN /\ auth' = [called EXCEPT !.ok = TRUE,
                                             !.msg = "User deleted successfully"]
                   /\ users' = {row \in users : row.username # username}
                   /\ UNCHANGED table_created
              ELSE /\ auth' = [called EXCEPT !.msg = "User not found"]
                   /\ UNCHANGED <<table_created, users>>
    /\ UNCHANGED <<engine_vars, call, submission, conc_vars, admin_vars, session_vars>>

\* mutant: the role of the row is returned whatever the password
login_user_unverified ==
    /\ \E username \in Usernames, password \in Passwords, db_ok \in BOOLEAN :
          LET called == [NoAuth EXCEPT !.fn = "login_user", !.username = username,
                                       !.password = password]
          IN  IF ~db_ok \/ ~table_created
              THEN auth' = [called EXCEPT !.st_error = "Login error"]
              ELSE IF HasUser(users, username)
              THEN auth' = [called EXCEPT !.returned = Some(Row(users, username).role)]
              ELSE auth' = called
    /\ UNCHANGED <<table_created, users>>
    /\ UNCHANGED <<engine_vars, call, submission, conc_vars, admin_vars, session_vars>>

\* lines 78-92 on a table: the role returned, or None
login_user_returns(created, table, username, password, db_ok) ==
    IF ~db_ok \/ ~created THEN None
    ELSE IF /\ HasUser(table, username)
            /\ verify_password(password, Row(table, username).password)
    THEN Some(Row(table, username).role)
    ELSE None

\* a call of login_user
login_user ==
    /\ \E username \in Usernames, password \in Passwords, db_ok \in BOOLEAN :
          auth' = [NoAuth EXCEPT
                     !.fn = "login_user", !.username = username, !.password = password,
                     !.returned = login_user_returns(table_created, users, username,
                                                     password, db_ok),
                     !.st_error = IF ~db_ok \/ ~table_created THEN "Login error" ELSE ""]
    /\ UNCHANGED <<table_created, users>>
    /\ UNCHANGED <<engine_vars, call, submission, conc_vars, admin_vars, session_vars>>

(***************************************************************************)
(* The session of app_simple.py.  Every interaction runs main from the     *)
(* top: create_user_table, then the login page or the sidebar and the      *)
(* view of the role.  st.rerun() ends the run and starts main again.       *)
(* add_user and delete_user are the calls of the admin dashboard, made by  *)
(* this session or by any other.                                           *)
(***************************************************************************)
\* mutant: logout leaves the username and the role in the session
logout_keeps_identity == [session EXCEPT !.logged_in = FALSE]

\* lines 248-251: the session state logout assigns
logout == [logged_in |-> FALSE, username |-> "", role |-> ""]

\* lines 385-400: what main renders for a session state
main_views(state) ==
    IF ~state.logged_in THEN {"login_page"}
    ELSE {"sidebar"} \cup (IF state.role = "admin"
                           THEN {"admin_dashboard", "loan_application"}
                           ELSE IF state.role = "officer" THEN {"loan_application"}
                           ELSE {})

\* the record main leaves of its calls on the table
MainCalled(st_error) == [NoAuth EXCEPT !.fn = "main", !.st_error = st_error]

\* lines 374-400: a run of main with no button pressed
MainRender ==
    /\ \E db \in DbOutcomes :
          \E salt \in SaltsDrawn(users, db) :
             LET after == table_after_create(table_created, users, db, salt)
             IN  /\ table_created' = after.table_created
                 /\ users' = after.users
                 /\ auth' = MainCalled(after.st_error)
    /\ page' = main_views(session)
    /\ UNCHANGED session
    /\ UNCHANGED <<engine_vars, call, submission, conc_vars, admin_vars>>

\* lines 225-246: the login form submitted; a role starts the session and
\* st.rerun() runs main again
LoginSubmitted ==
    /\ "login_page" \in page
    /\ \E username \in Usernames, password \in Passwords, db_ok \in BOOLEAN,
          db \in DbOutcomes :
        \E salt \in SaltsDrawn(users, db) :
          LET after == table_after_create(table_created, users, db, salt)
              role == IF username # "" /\ password # ""
                      THEN login_user_returns(after.table_created, after.users,
                                              username, password, db_ok)
                      ELSE None
          IN  IF role # None /\ Val(role) # ""
              THEN /\ session' = [logged_in |-> TRUE, username |-> username,
                                  role |-> Val(role)]
                   /\ \E db_rerun \in DbOutcomes :
                         LET rerun == table_after_create(after.table_created,
                                                         after.users, db_rerun, salt)
                         IN  /\ table_created' = rerun.table_created
                             /\ users' = rerun.users
                             /\ auth' = MainCalled(rerun.st_error)
                   /\ page' = main_views(session')
              ELSE /\ table_created' = after.table_created
                   /\ users' = after.users
                   /\ auth' = MainCalled(after.st_error)
                   /\ page' = {"login_page",
                               IF username # "" /\ password # ""
                               THEN "Invalid username or password"
                               ELSE "Please enter both username and password"}
                   /\ UNCHANGED session
    /\ UNCHANGED <<engine_vars, call, submission, conc_vars, admin_vars>>

\* lines 387-392 and 248-252: the logout button of the sidebar
LogoutClicked ==
    /\ "sidebar" \in page
    /\ session' = logout
    /\ \E db \in DbOutcomes, db_rerun \in DbOutcomes :
        \E salt \in SaltsDrawn(users, db) \cup SaltsDrawn(users, db_rerun) :
          LET after == table_after_create(table_created, users, db, salt)
              rerun == table_after_create(after.table_created, after.users, db_rerun, salt)
          IN  /\ table_created' = rerun.table_created
              /\ users' = rerun.users
              /\ auth' = MainCalled(rerun.st_error)
    /\ page' = main_views(session')
    /\ UNCHANGED <<engine_vars, call, submission, conc_vars, admin_vars>>

SessionNext ==
    \/ MainRender
    \/ LoginSubmitted
    \/ LogoutClicked
    \/ add_user
    \/ delete_user

AuthNext ==
    \/ create_user_table
    \/ add_user
    \/ delete_user
    \/ login_user

(***************************************************************************)
(* The admin panel of app.py.  Streamlit runs the script from top to       *)
(* bottom on every interaction; Rerun is one such run with the content of  *)
(* the password field.  time.time() is read by each check_rate_limit and   *)
(* may have advanced between the check of line 244 and that of line 255.   *)
(***************************************************************************)
\* app.py lines 21-23 and 25-27
hash_password_sha256(password) == sha256(password)
verify_password_sha256(input_password, stored_hash) ==
    hash_password_sha256(input_password) = stored_hash

\* the attempts of a list younger than the window at time t, in order
Unexpired(attempts, t) ==
    SelectSeq(attempts, LAMBDA attempt_time : t - attempt_time < WINDOW_MINUTES)

\* mutant: the expired attempts are counted out but stay in the list
check_rate_limit_keeps_expired(attempts, t) ==
    [login_attempts |-> attempts,
     allowed |-> Len(Unexpired(attempts, t)) < MAX_ATTEMPTS]

\* mutant: the limit itself is still allowed
check_rate_limit_inclusive(attempts, t) ==
    [login_attempts |-> Unexpired(attempts, t),
     allowed |-> Len(Unexpired(attempts, t)) <= MAX_ATTEMPTS]

\* lines 36-48: the list after the expired attempts are removed, and the answer
check_rate_limit(attempts, t) ==
    [login_attempts |-> Unexpired(attempts, t),
     allowed |-> Len(Unexpired(attempts, t)) < MAX_ATTEMPTS]

\* lines 50-54
record_failed_attempt(attempts, t) == Append(attempts, t)

\* time passes
Tick ==
    /\ now + TickMinutes <= MaxTime
    /\ now' = now + TickMinutes
    /\ UNCHANGED <<login_attempts, admin_password_hash, sidebar>>
    /\ UNCHANGED <<engine_vars, call, submission, conc_vars, auth_vars, session_vars>>

\* lines 236-255: one run of the script
Rerun ==
    \E admin_password \in AdminPasswords,
       stored_hash \in (IF admin_password_hash = None THEN AdminHashes
                        ELSE admin_password_hash),
       dt \in {0, TickMinutes} :
        /\ now + dt <= MaxTime
        /\ admin_password_hash' = Some(stored_hash)
        /\ IF admin_password = ""
           THEN /\ dt = 0
                /\ sidebar' = NoSidebar
                /\ UNCHANGED <<login_attempts, now>>
           ELSE LET verified == verify_password_sha256(admin_password, stored_hash)
                    first == check_rate_limit(login_attempts, now)
                    \* lines 244-252
                    attempts == IF ~first.allowed THEN first.login_attempts
                                ELSE IF verified THEN <<>>
                                ELSE record_failed_attempt(first.login_attempts, now)
                    \* line 255: the second check runs only if the password verifies
                    second == check_rate_limit(attempts, now + dt)
                IN  /\ sidebar' =
                          [submitted |-> TRUE,
                           verified |-> verified,
                           error |-> IF ~first.allowed THEN "Too many failed attempts"
                                     ELSE IF verified THEN ""
                                     ELSE "Invalid Admin Password",
                           granted |-> first.allowed /\ verified,
                           remaining_attempts |->
                               IF first.allowed /\ ~verified
                               THEN MAX_ATTEMPTS - Len(attempts)
                               ELSE MAX_ATTEMPTS,
                           features |-> verified /\ second.allowed]
                    /\ login_attempts' = IF verified THEN second.login_attempts
                                         ELSE attempts
                    /\ now' = IF verified THEN now + dt ELSE now
                    /\ (~verified => dt = 0)
        /\ UNCHANGED <<engine_vars, call, submission, conc_vars, auth_vars, session_vars>>

AdminNext ==
    \/ Tick
    \/ Rerun

(***************************************************************************)
(* loan_application: the form, its encoding, and the call of the engine    *)
(***************************************************************************)
\* the values of the object columns in the order numpy sorts them
SortedCategories ==
    <<"Rural", "Suburban", "Urban", "average", "excellent", "good", "poor">>

Precedes(u, v) ==
    \E i, j \in DOMAIN SortedCategories :
        /\ SortedCategories[i] = u
        /\ SortedCategories[j] = v
        /\ i < j

\* an integer code of an encoded column, written as its numeral, so that
\* comparing it with a category is False as 0 == 'good' is in Python
CodeName(k) == <<"0", "1", "2", "3", "4", "5", "6">>[k + 1]

\* LabelEncoder().fit_transform(column): the classes are the sorted distinct
\* values of the column it is given, a value's code is its index among them
fit_transform(column) ==
    [i \in DOMAIN column |->
        CodeName(Cardinality({u \in {column[j] : j \in DOMAIN column} :
                                Precedes(u, column[i])}))]

\* lines 285-303: the one-row frame, each object column encoded by an
\* encoder fitted on that column of that frame
encode(form) ==
    [form EXCEPT !.Region = fit_transform(<<form.Region>>)[1],
                 !.repayment_history = fit_transform(<<form.repayment_history>>)[1]]

Forms ==
    [Region : Regions,
     monthly_income : FormIncomes,
     repayment_history : RepaymentHistories,
     has_collateral : BOOLEAN,
     missing_documents : BOOLEAN]

\* lines 279-305: the submit button, up to the call of run_decision_engine
\* and its test of the model handle (lines 182-184)
Submit ==
    /\ phase = "Idle"
    /\ \E form \in Forms, model_loaded \in BOOLEAN :
          IF model_loaded
          THEN /\ submission' = Some([raw |-> form, input_data |-> Some(encode(form)),
                                      page_error |-> ""])
               /\ input_df' = Some([monthly_income |-> form.monthly_income,
                                    repayment_history |-> encode(form).repayment_history,
                                    has_collateral |-> form.has_collateral,
                                    missing_documents |-> form.missing_documents])
               /\ phase' = "Preprocessing"
          ELSE /\ submission' = Some([raw |-> form, input_data |-> None,
                                      page_error |-> "Unable to process application. Model not available."])
               /\ UNCHANGED <<phase, input_df>>
    /\ calls' = <<>>
    /\ result' = None
    /\ failure' = ""
    /\ outcome' = ""
    /\ st_errors' = <<>>
    /\ trace' = <<>>
    /\ UNCHANGED <<prob, credit_score, decision, approved_loan_amount, message, call>>
    /\ UNCHANGED rest_vars

\* run_decision_engine entered from the form.  Estimating is left out: no
\* state a submission reaches enables it (SubmitNeverEstimates)
SubmitNext ==
    \/ Submit
    \/ Preprocessing
    \/ PredictFails
    \/ Predicting
    \/ Scoring
    \/ Deciding
    \/ Messaging
    \/ Leave

RangesNext ==
    \/ CallMapProbabilityToScoreRange
    \/ CallProbabilityToScoreRange
    \/ CallCalculateProbabilityScoreRange
    \/ CallReturns

ScoringNext ==
    \/ CallMapProbabilityToScore
    \/ CallProbabilityToScore
    \/ CallCalculateProbabilityScore
    \/ CallDecisionLogic
    \/ CallEstimateLoanAmount
    \/ CallReturns

EngineNext ==
    \/ Enter
    \/ Preprocessing
    \/ PredictFails
    \/ Predicting
    \/ Scoring
    \/ Deciding
    \/ Estimating
    \/ Messaging
    \/ Leave

\* calls of run_decision_engine
Spec == Init /\ [][EngineNext]_vars

\* direct calls of the score-mapping functions and of decision_logic
SpecScoring == Init /\ [][ScoringNext]_vars

\* direct calls of the score-mapping functions with score ranges
SpecRanges == Init /\ [][RangesNext]_vars

\* interleaved calls of run_decision_engine
SpecConcurrent == Init /\ [][ConcurrentNext]_vars

\* calls on the users table of app_simple.py
SpecAuth == Init /\ [][AuthNext]_vars

\* a session of app_simple.py, with calls of add_user and delete_user
SpecSession == Init /\ [][SessionNext]_vars

\* the admin panel of app.py
SpecAdmin == Init /\ [][AdminNext]_vars

\* form submissions of loan_application
SpecSubmit == Init /\ [][SubmitNext]_vars

(***************************************************************************)
(* Properties                                                              *)
(***************************************************************************)
\* the current engine call has evaluated the rule table
Decided == decision # Unset

\* the last direct call was of fn with a probability in [0, 1]
UnitCallOf(fn) == call.fn = fn /\ call.pn \in UnitProbs

\* min_score + p * (max_score - min_score) for the default bounds, scaled by PDen
ExactScaled(pn) == DEFAULT_MIN_SCORE * PDen + pn * (DEFAULT_MAX_SCORE - DEFAULT_MIN_SCORE)

\* C1: with missing_docs false the decision is that of the ordered first-match
\* table: Approved exactly under rule 1 or rule 2, Review exactly when neither
\* applies and rule 3 does, Rejected otherwise; with the spec's examples
\* (720 good no collateral, 650 average collateral, 550 poor, 499 poor, and a
\* high score with average history and no collateral).
C1_FirstMatchTable ==
    (Decided /\ ~Val(input_df).missing_documents) =>
        LET s == Val(credit_score)
            h == Val(input_df).repayment_history
            c == Val(input_df).has_collateral
            rule1 == s >= 700 /\ h = "good"
            rule2 == s >= 600 /\ h \in {"good", "average"} /\ c
            rule3 == (500 <= s /\ s < 600) \/ h = "average"
        IN  /\ s \in DEFAULT_MIN_SCORE..DEFAULT_MAX_SCORE
            /\ (decision = "Approved") <=> (rule1 \/ rule2)
            /\ (decision = "Review") <=> (~rule1 /\ ~rule2 /\ rule3)
            /\ (decision = "Rejected") <=> (~rule1 /\ ~rule2 /\ ~rule3)
            /\ (s = 720 /\ h = "good" /\ ~c) => decision = "Approved"
            /\ (s = 650 /\ h = "average" /\ c) => decision = "Approved"
            /\ (s = 550 /\ h = "poor" /\ ~c) => decision = "Review"
            /\ (s = 499 /\ h = "poor" /\ ~c) => decision = "Rejected"
            /\ (s >= 700 /\ h = "average" /\ ~c) => decision = "Review"

\* a high score with average history and no collateral has been decided
C1_Witness ==
    /\ phase = "Returned"
    /\ Decided
    /\ ~Val(input_df).missing_documents
    /\ Val(credit_score) >= 700
    /\ Val(input_df).repayment_history = "average"
    /\ ~Val(input_df).has_collateral
    /\ Val(result).decision = "Review"

\* C2: whenever missing_documents is true the decision of decision_logic, and
\* the one run_decision_engine returns, is Review.
C2_MissingDocsForceReview ==
    (Decided /\ Val(input_df).missing_documents) =>
        /\ decision = "Review"
        /\ result # None => Val(result).decision = "Review"

\* an input matching rule 1 with missing documents has been returned as Review
C2_Witness ==
    /\ phase = "Returned"
    /\ Decided
    /\ Val(input_df).missing_documents
    /\ Val(credit_score) = 720
    /\ Val(input_df).repayment_history = "good"
    /\ Val(result).decision = "Review"

\* C3 (as stated): map_probability_to_score(p) is
\* round(min_score + p * (max_score - min_score)), the nearest integer.
C3_RoundsToNearest ==
    UnitCallOf("map_probability_to_score") =>
        call.scaled = PDen * RoundHalfEven(ExactScaled(call.pn), PDen)

\* C3 (amended): map_probability_to_score(p) is the value truncated to an
\* integer: the largest integer not above min_score + p * (max_score - min_score).
C3_Truncates ==
    UnitCallOf("map_probability_to_score") =>
        /\ ~call.raised
        /\ call.scaled % PDen = 0
        /\ call.scaled <= ExactScaled(call.pn)
        /\ ExactScaled(call.pn) < call.scaled + PDen

\* the mapping has returned for a value whose fraction is above one half
C3_Witness ==
    /\ UnitCallOf("map_probability_to_score")
    /\ 2 * (ExactScaled(call.pn) % PDen) > PDen

\* C4: the credit score of a probability in [0, 1], as computed and as placed
\* in the returned record, is an integer within [min_score, max_score].
C4_ScoreWithinBounds ==
    /\ credit_score # None =>
            Val(credit_score) \in DEFAULT_MIN_SCORE..DEFAULT_MAX_SCORE
    /\ result # None =>
            Val(result).credit_score \in DEFAULT_MIN_SCORE..DEFAULT_MAX_SCORE

\* the probability 1.0 has been returned as the top of the range
C4_Witness ==
    /\ phase = "Returned"
    /\ result # None
    /\ Val(prob) = PDen
    /\ Val(result).credit_score = DEFAULT_MAX_SCORE

\* C5: a probability outside [0, 1] is rejected with an error by
\* map_probability_to_score, decision_logic and calculate_probability_score.
C5_OutOfRangeRejected ==
    (/\ call.fn \in {"map_probability_to_score", "decision_logic",
                     "calculate_probability_score"}
     /\ call.pn \notin UnitProbs) => call.raised

\* C6: map_probability_to_score is non-decreasing in the probability, with
\* score(0.0) = 300, score(0.5) = 550 and score(1.0) = 800.
C6_NonDecreasing ==
    UnitCallOf("map_probability_to_score") =>
        /\ \A q \in UnitProbs :
              /\ q <= call.pn =>
                    PDen * map_probability_to_score(q, DEFAULT_MIN_SCORE,
                                                    DEFAULT_MAX_SCORE) <= call.scaled
              /\ q >= call.pn =>
                    PDen * map_probability_to_score(q, DEFAULT_MIN_SCORE,
                                                    DEFAULT_MAX_SCORE) >= call.scaled
        /\ call.pn = 0 => call.scaled = 300 * PDen
        /\ 2 * call.pn = PDen => call.scaled = 550 * PDen
        /\ call.pn = PDen => call.scaled = 800 * PDen

\* the mapping has returned 550 for the probability 0.5
C6_Witness ==
    /\ UnitCallOf("map_probability_to_score")
    /\ 2 * call.pn = PDen
    /\ call.scaled = 550 * PDen

\* the score, scaled by PDen, that a mapping returns for a probability in [0, 1]
ScaledScoreOf(fn, pn) ==
    IF fn = "map_probability_to_score"
    THEN map_probability_to_score_call(pn, DEFAULT_MIN_SCORE, DEFAULT_MAX_SCORE).scaled
    ELSE IF fn = "probability_to_score"
    THEN probability_to_score(pn, DEFAULT_MIN_SCORE, DEFAULT_MAX_SCORE).scaled
    ELSE calculate_probability_score(pn, DEFAULT_MIN_SCORE, DEFAULT_MAX_SCORE).scaled

MappingFns == {"map_probability_to_score", "probability_to_score",
               "calculate_probability_score"}

\* C7: the three mappings order any two probabilities the same way: when one
\* scores p above (below) q, so do the other two.
C7_OneSignConvention ==
    (call.fn \in MappingFns /\ call.pn \in UnitProbs /\ ~call.raised) =>
        \A g \in MappingFns, q \in UnitProbs :
            /\ (ScaledScoreOf(call.fn, q) < call.scaled) =>
                    (ScaledScoreOf(g, q) <= ScaledScoreOf(g, call.pn))
            /\ (ScaledScoreOf(call.fn, q) > call.scaled) =>
                    (ScaledScoreOf(g, q) >= ScaledScoreOf(g, call.pn))

\* the elements of a sequence
Range(seq) == {seq[i] : i \in DOMAIN seq}

\* C8: loan_amount of a returned record is present exactly when its decision is
\* Approved; estimate_loan_amount runs only for an Approved decision, and
\* generate_message never gets Approved without an amount.
C8_AmountIffApproved ==
    /\ result # None =>
            ((Val(result).loan_amount # None) <=> (Val(result).decision = "Approved"))
    /\ approved_loan_amount # None => decision = "Approved"
    /\ "estimate_loan_amount" \in Range(calls) => decision = "Approved"
    /\ "generate_message" \in Range(calls) =>
            /\ Val(message).template # "TypeError"
            /\ decision = "Approved" => approved_loan_amount # None

\* an Approved record with its amount has been returned, after the estimate
C8_Witness ==
    /\ phase = "Returned"
    /\ result # None
    /\ Val(result).decision = "Approved"
    /\ Val(result).loan_amount # None
    /\ calls = <<"decision_logic", "map_probability_to_score",
                 "estimate_loan_amount", "generate_message">>

\* C9: estimate_loan_amount returns income * multiplier rounded to the nearest
\* thousand, the multiplier taken highest threshold first (3.0, 2.5, 2.0, 1.5,
\* else 1.0); 750 with 50000 gives 150000 and 749 with 50000 gives 125000.
C9_LoanAmount ==
    call.fn = "estimate_loan_amount" =>
        LET s == call.args.credit_score
            income == call.args.income
            twice == IF s >= 750 THEN 6 * income
                     ELSE IF s >= 700 THEN 5 * income
                     ELSE IF s >= 650 THEN 4 * income
                     ELSE IF s >= 600 THEN 3 * income
                     ELSE 2 * income
        IN  /\ call.amount % 1000 = 0
            /\ 2 * call.amount - twice <= 1000
            /\ twice - 2 * call.amount <= 1000
            /\ (s = 750 /\ income = 50000) => call.amount = 150000
            /\ (s = 749 /\ income = 50000) => call.amount = 125000

\* the estimate for score 750 and income 50000 has been returned
C9_Witness ==
    /\ call.fn = "estimate_loan_amount"
    /\ call.args.credit_score = 750
    /\ call.args.income = 50000
    /\ call.amount = 150000

\* C10: an Approved record for a strictly positive monthly income carries a
\* strictly positive loan_amount.
C10_PositiveAmount ==
    (/\ result # None
     /\ Val(result).decision = "Approved"
     /\ Val(input_df).monthly_income > 0) =>
        /\ Val(result).loan_amount # None
        /\ Val(Val(result).loan_amount) > 0

\* C14: when the model is unavailable or the pipeline or the prediction fails,
\* the call is over: no probability, credit score, decision, loan amount or
\* message was computed, no phase was run twice, and nothing is returned.
C14_NoDecisioningOnFailure ==
    failure # "" =>
        /\ phase = "Returned"
        /\ prob = None
        /\ credit_score = None
        /\ decision = Unset
        /\ approved_loan_amount = None
        /\ message = None
        /\ result = None
        /\ calls = <<>>
        /\ Range(trace) \subseteq {"Preprocessing", "Predicting"}
        /\ Cardinality(Range(trace)) = Len(trace)

\* a call whose prediction failed has ended without a result
C14_Witness ==
    /\ failure = "prediction_error"
    /\ phase = "Returned"
    /\ trace = <<"Preprocessing", "Predicting">>
    /\ result = None

OracleFailures == {"pipeline_error", "prediction_error"}

PhaseRank(ph) ==
    CASE ph = "Preprocessing" -> 1
      [] ph = "Predicting" -> 2
      [] ph = "Scoring" -> 3
      [] ph = "Deciding" -> 4
      [] ph = "Estimating" -> 5
      [] ph = "Messaging" -> 6

\* the phases of a call have run in order, each at most once, and a returned
\* record has passed Scoring, Deciding, Estimating (exactly when Approved)
\* and Messaging
C16_Linear ==
    /\ \A i, j \in DOMAIN trace : i < j => PhaseRank(trace[i]) < PhaseRank(trace[j])
    /\ result # None =>
          /\ phase = "Returned"
          /\ {"Scoring", "Deciding", "Messaging"} \subseteq Range(trace)
          /\ ("Estimating" \in Range(trace)) <=> (Val(result).decision = "Approved")
          /\ trace[Len(trace)] = "Messaging"
          /\ Val(result).decision = decision

\* C16: a successful call passes Scoring, Deciding, Estimating (only if
\* Approved) and Messaging in that order, once each, never going back, and ends
\* in the returned record; the decision is not changed after Deciding.
C16_PhasesInOrder ==
    /\ []C16_Linear
    /\ [][(decision # Unset /\ decision' # Unset) => decision' = decision]_vars

\* an Approved call has returned after all four phases
C16_Witness ==
    /\ phase = "Returned"
    /\ result # None
    /\ trace = <<"Preprocessing", "Predicting", "Scoring", "Deciding", "Estimating",
                 "Messaging">>

\* a submission never reaches the estimation of a loan amount
SubmitNeverEstimates == phase # "Estimating"

\* the engine is running on, or has returned from, a form submission
Submitted == submission # None /\ Val(submission).input_data # None

\* C11: a categorical value outside the vocabulary, such as the repayment
\* history "excellent", fails with an error: decision_logic returns no
\* decision for it
C11_UnknownCategoryRejected ==
    (call.fn = "decision_logic" /\ call.args.repayment_history \notin RepaymentHistories)
        => call.raised

\* C12: two consecutive submissions that differ in Region are handed to the
\* oracle with different codes for Region
C12_EncodingOneToOne ==
    [][(/\ Submitted /\ Submitted'
        /\ Val(submission).raw.Region # Val(submission').raw.Region)
          => Val(Val(submission).input_data).Region
               # Val(Val(submission').input_data).Region]_vars

\* C13: in the submission flow the rules compare the history the applicant
\* entered, so history good with a score >= 700 and no missing documents
\* is Approved
C13_SubmittedGoodApproved ==
    (/\ Submitted /\ Decided
     /\ Val(submission).raw.repayment_history = "good"
     /\ Val(credit_score) >= 700
     /\ ~Val(submission).raw.missing_documents)
        => /\ Val(input_df).repayment_history = "good"
           /\ decision = "Approved"

\* C18: every score-mapping function that takes min_score and max_score
\* rejects a range with min_score >= max_score instead of returning a score
C18_InvalidRangeRejected ==
    (/\ call.fn \in {"map_probability_to_score", "calculate_probability_score"}
     /\ call.args.min_score >= call.args.max_score)
        => call.raised

\* what does hold: calculate_probability_score rejects such a range
CalculateRejectsInvalidRange ==
    (/\ call.fn = "calculate_probability_score"
     /\ call.args.min_score >= call.args.max_score)
        => call.raised

\* a call of the engine that returned a record returned what the lines of
\* run_decision_engine compute for its frame and its probability
EngineReturnsItsFunction ==
    (phase = "Returned" /\ result # None)
        => result = run_decision_engine(Val(input_df), prob)

\* C17: the engine is stateless.  Whatever calls interleave with it, a call
\* returns what it returns when run alone on its frame with the oracle's
\* answer for that frame, so equal inputs give equal results; and no step of
\* one call changes the locals of another
C17_ReturnsWhatItReturnsAlone ==
    \A c \in Callers :
        threads[c].phase = "Returned"
            => /\ Val(threads[c].input_df) \in DOMAIN oracle
               /\ threads[c].result
                    = run_decision_engine(Val(threads[c].input_df),
                                          oracle[Val(threads[c].input_df)])

C17_Stateless ==
    /\ []C17_ReturnsWhatItReturnsAlone
    /\ [][\A c, d \in Callers :
            (c # d /\ threads'[c] # threads[c]) => threads'[d] = threads[d]]_vars

\* one call has returned an approval while another, on a different frame
\* and a different answer of the oracle, is between prediction and decision
C17_Witness ==
    \E c, d \in Callers :
        /\ threads[c].phase = "Returned"
        /\ threads[c].result # None
        /\ Val(threads[c].result).decision = "Approved"
        /\ threads[d].phase = "Deciding"
        /\ threads[d].input_df # threads[c].input_df
        /\ threads[d].prob # threads[c].prob

\* C19: login_user returns the stored role exactly when the username is in
\* the users table and the password verifies against the stored hash (and
\* the database raised nothing); otherwise it returns None; and it never
\* changes the users table
C19_RoleIffVerified ==
    auth.fn = "login_user"
        => auth.returned
             = IF /\ auth.st_error = ""
                  /\ HasUser(users, auth.username)
                  /\ verify_password(auth.password, Row(users, auth.username).password)
               THEN Some(Row(users, auth.username).role)
               ELSE None

C19_LoginUser ==
    /\ []C19_RoleIffVerified
    /\ [][auth'.fn = "login_user"
            => (users' = users /\ table_created' = table_created)]_vars

\* an added officer has logged in, and the default admin is in the table
\* under another salt
C19_Witness ==
    /\ auth.fn = "login_user"
    /\ auth.returned = Some("officer")
    /\ HasUser(users, DEFAULT_ADMIN_USERNAME)
    /\ Row(users, DEFAULT_ADMIN_USERNAME).password.salt # Row(users, auth.username).password.salt

\* the recorded attempts that lie within the window at time t
InWindow(t) == Len(Unexpired(login_attempts, t))

\* C20: while three failed attempts lie within the last 15 minutes, a run
\* of the script with a password, correct or not, shows the too-many-attempts
\* error, grants nothing, shows no admin features and records no attempt;
\* the admin features are shown only when fewer than three recorded
\* attempts lie within the window
C20_FeaturesOnlyBelowLimit ==
    sidebar.features => (sidebar.verified /\ InWindow(now) < MAX_ATTEMPTS)

C20_AccessAgain ==
    /\ sidebar.features
    /\ sidebar.error = ""
    /\ now >= WINDOW_MINUTES
    /\ Len(login_attempts) = 0

\* C21: login_attempts never holds more than three entries, so the number of
\* attempts said to remain after a failed attempt is 0, 1 or 2; and a
\* successful login leaves the list empty
C21_AtMostThreeAttempts ==
    /\ Len(login_attempts) <= MAX_ATTEMPTS
    /\ sidebar.error = "Invalid Admin Password"
          => sidebar.remaining_attempts \in 0..(MAX_ATTEMPTS - 1)
    /\ sidebar.granted => login_attempts = <<>>

\* the third failed attempt, made later than the first: none is said to remain
C21_Witness ==
    /\ sidebar.error = "Invalid Admin Password"
    /\ sidebar.remaining_attempts = 0
    /\ Len(login_attempts) = MAX_ATTEMPTS
    /\ login_attempts[1] < login_attempts[MAX_ATTEMPTS]

\* C22: after create_user_table has run without an error, the default admin
\* is in the users table with role admin
C22_DefaultAdminKept ==
    (auth.fn = "create_user_table" /\ auth.st_error = "")
        => /\ HasUser(users, DEFAULT_ADMIN_USERNAME)
           /\ Row(users, DEFAULT_ADMIN_USERNAME).role = "admin"

\* what does hold: after such a run the default admin username is in the table
DefaultAdminPresent ==
    (auth.fn = "create_user_table" /\ auth.st_error = "")
        => HasUser(users, DEFAULT_ADMIN_USERNAME)

\* what does hold: delete_user refuses the default admin, and the row of the
\* default admin, once in the table, is never removed or changed
DefaultAdminRowStays ==
    /\ [](auth.fn = "delete_user" /\ auth.username = DEFAULT_ADMIN_USERNAME
            => ~auth.ok /\ auth.msg = "Cannot delete default admin user")
    /\ [][HasUser(users, DEFAULT_ADMIN_USERNAME)
            => (HasUser(users', DEFAULT_ADMIN_USERNAME)
                /\ Row(users', DEFAULT_ADMIN_USERNAME) = Row(users, DEFAULT_ADMIN_USERNAME))]_vars

\* the usernames of the table are unique and its roles are admin or officer
RowsValid ==
    /\ \A r1, r2 \in users : r1.username = r2.username => r1 = r2
    /\ \A row \in users : row.role \in {"admin", "officer"}

\* the arguments of the last call have an empty field, or a role that is
\* neither admin nor officer
EmptyField(a) == a.username = "" \/ a.password = "" \/ a.role = ""
InvalidRole(a) == a.role \notin {"admin", "officer"}

\* C23: add_user returns False and leaves the users table as it was when a
\* field is empty ("All fields are required"), when the role is neither
\* admin nor officer ("Invalid role"), and when the username is in the
\* table ("Username already exists", unless sqlite3 raised another error);
\* so usernames stay unique and every stored role is admin or officer
C23_AddUserRefuses ==
    /\ []RowsValid
    /\ [][(/\ auth'.fn = "add_user"
           /\ (EmptyField(auth') \/ InvalidRole(auth') \/ HasUser(users, auth'.username)))
            => (/\ ~auth'.ok
                /\ users' = users
                /\ auth'.msg = IF EmptyField(auth') THEN "All fields are required"
                               ELSE IF InvalidRole(auth') THEN "Invalid role"
                               ELSE IF auth'.msg = "Database error" THEN "Database error"
                               ELSE "Username already exists")]_vars

\* add_user refused a username of a table that holds two users
C23_Witness ==
    /\ auth.fn = "add_user"
    /\ auth.msg = "Username already exists"
    /\ Cardinality(users) = 2

\* C24: the admin dashboard is rendered only in a session logged in with
\* role admin, the loan application only in one logged in with role admin
\* or officer, a session not logged in sees the login page alone; and
\* logout sets logged_in to False and empties username and role
C24_Gated ==
    /\ "admin_dashboard" \in page => (session.logged_in /\ session.role = "admin")
    /\ "loan_application" \in page
          => (session.logged_in /\ session.role \in {"admin", "officer"})
    /\ ~session.logged_in
          => page \cap {"sidebar", "admin_dashboard", "loan_application"} = {}
    /\ ~session.logged_in => (session.username = "" /\ session.role = "")

C24_SessionGating ==
    /\ []C24_Gated
    /\ [][LogoutClicked
            => (/\ session' = [logged_in |-> FALSE, username |-> "", role |-> ""]
                /\ page' = {"login_page"})]_vars

\* an officer, added by an admin, is logged in and sees the loan application
\* without the admin dashboard
C24_Witness ==
    /\ session.logged_in
    /\ session.role = "officer"
    /\ page = {"sidebar", "loan_application"}

\* C26: a logged-in session's username is in the users table with the role
\* the session holds
C26_SessionUserExists ==
    session.logged_in
        => /\ HasUser(users, session.username)
           /\ Row(users, session.username).role = session.role

\* the order of the decisions: Rejected < Review < Approved
DecisionRank(d) == IF d = "Approved" THEN 2 ELSE IF d = "Review" THEN 1 ELSE 0

\* C25: the rule table is monotone in the score: with the history, the
\* collateral and the missing documents of a call of decision_logic, no
\* higher score of [300, 800] gets a worse decision than the call returned
C25_MonotoneInScore ==
    (call.fn = "decision_logic" /\ call.pn \in UnitProbs)
        => \A s2 \in Scores :
              s2 >= call.scaled \div PDen
                 => DecisionRank(rule_table(s2, call.args.repayment_history,
                                            call.args.has_collateral,
                                            call.args.missing_docs))
                      >= DecisionRank(call.decision)

====
